---- MODULE Spec2Model ----
(***************************************************************************)
(* Model of the railway alignment engine (utils/railway_alignment.py and   *)
(* the generators it calls).                                               *)
(*                                                                         *)
(* Number representation.  The program computes in floating point; the    *)
(* model computes in fixed point with integers:                            *)
(*   stations, lengths, radii : hundredths of a foot                       *)
(*   bearings, deflections    : hundredths of a degree (centi-degrees)     *)
(*   latitude, longitude      : millionths of a degree (micro-degrees)     *)
(*   sin, cos                 : thousandths                                *)
(* Python's None is the empty sequence << >>, a set value v is <<v>>.      *)
(* A station or angle string is a sequence of one-character strings.       *)
(***************************************************************************)
EXTENDS Integers, Sequences, FiniteSets, TLC

VARIABLES
    segments,            \* RailwayAlignment.segments
    segment_coords,      \* RailwayAlignment.segment_coords
    all_coords,          \* RailwayAlignment.all_coords
    reference_points,    \* RailwayAlignment.reference_points
    track_type_sections, \* RailwayAlignment.track_type_sections
    track_types,         \* RailwayAlignment.track_types
    last,                \* the last call: its name, its outcome, and for
                         \* add_to_map whether a reference point name and
                         \* track parameters were given, whether the segments
                         \* were reached and in which mode
    trace,               \* what the last add_to_map handed from segment to segment
    calls                \* number of add_to_map calls that reached the segments

vars == <<segments, segment_coords, all_coords, reference_points,
          track_type_sections, track_types, last, trace, calls>>

(***************************************************************************)
(* Bounds of the model                                                     *)
(***************************************************************************)
MaxSegments == 2
MaxSections == 1
MaxCalls == 2

(***************************************************************************)
(* Integer helpers                                                         *)
(***************************************************************************)
None == << >>

Some(v) == <<v>>

Abs(x) == IF x < 0 THEN -x ELSE x

\* floor division for any sign of the dividend and a non-zero divisor
FloorDiv(a, b) ==
    IF b > 0
    THEN IF a >= 0 THEN a \div b ELSE -(((-a) + b - 1) \div b)
    ELSE IF a <= 0 THEN (-a) \div (-b) ELSE -((a + (-b) - 1) \div (-b))

\* truncation toward zero, Python's int() of a quotient
TruncDiv(a, b) ==
    IF (a >= 0) = (b > 0) THEN Abs(a) \div Abs(b) ELSE -(Abs(a) \div Abs(b))

RECURSIVE GCD(_, _)
GCD(a, b) == IF b = 0 THEN a ELSE GCD(b, a % b)

\* quotient and remainder of a * k by d for 0 <= a < d and k >= 0, by doubling,
\* so that no intermediate value leaves the 32-bit integers
RECURSIVE MulDivQR(_, _, _)
MulDivQR(a, k, d) ==
    IF k = 0 THEN <<0, 0>>
    ELSE LET h  == MulDivQR(a, k \div 2, d)
             r2 == 2 * h[2]
             r3 == (r2 % d) + (IF k % 2 = 1 THEN a ELSE 0)
         IN  <<2 * h[1] + (r2 \div d) + (r3 \div d), r3 % d>>

\* (a * k) \div d for a >= 0, k >= 0 and d > 0
MulDiv(a, k, d) == (a \div d) * k + MulDivQR(a % d, k, d)[1]

\* (n / d) * k for a non-zero d and k >= 0, the fraction reduced first
RatScale(n, d, k) ==
    LET g == GCD(Abs(n), Abs(d))
        nn == IF d < 0 THEN -(n \div g) ELSE n \div g
        dd == Abs(d) \div g
    IN  IF n = 0 THEN 0
        ELSE IF nn >= 0 THEN MulDiv(nn, k, dd) ELSE -MulDiv(-nn, k, dd)

(***************************************************************************)
(* numpy / math: degrees, sin, cos                                         *)
(***************************************************************************)
\* centi-degrees in one radian (180/pi = 57.2958)
CentiDegPerRad == 5730

\* np.degrees of the angle n/d radians, in centi-degrees
Degrees(n, d) == RatScale(n, d, CentiDegPerRad)

\* sine of x centi-degrees, 0 <= x <= 18000, in thousandths
SinHalfTurn(x) ==
    LET p == x * (18000 - x)
    IN  (4 * p) \div ((405000000 - p) \div 1000)

\* sin of a bearing in centi-degrees, in thousandths
SinFP(b) ==
    LET x == b % 36000
    IN  IF x <= 18000 THEN SinHalfTurn(x) ELSE -SinHalfTurn(x - 18000)

\* cos of a bearing in centi-degrees, in thousandths
CosFP(b) == SinFP(b + 9000)

(***************************************************************************)
(* Strings and float()                                                     *)
(***************************************************************************)
Digits == {"0", "1", "2", "3", "4", "5", "6", "7", "8", "9"}

DigitVal(c) ==
    CASE c = "0" -> 0 [] c = "1" -> 1 [] c = "2" -> 2 [] c = "3" -> 3
      [] c = "4" -> 4 [] c = "5" -> 5 [] c = "6" -> 6 [] c = "7" -> 7
      [] c = "8" -> 8 [] c = "9" -> 9

RECURSIVE DigitsToInt(_)
DigitsToInt(ds) ==
    IF ds = << >> THEN 0
    ELSE DigitsToInt(SubSeq(ds, 1, Len(ds) - 1)) * 10 + DigitVal(ds[Len(ds)])

Positions(s, c) == {i \in 1..Len(s) : s[i] = c}

\* the text after an optional leading sign
Unsigned(x) ==
    IF x # << >> /\ x[1] \in {"-", "+"} THEN SubSeq(x, 2, Len(x)) ELSE x

\* float(x) succeeds: optional sign, digits with at most one point, at least
\* one digit (exponents, inf, nan and padding are not in the input alphabet)
IsFloat(x) ==
    LET u == Unsigned(x)
    IN  /\ \A i \in 1..Len(u) : u[i] \in Digits \cup {"."}
        /\ Cardinality(Positions(u, ".")) <= 1
        /\ \E i \in 1..Len(u) : u[i] \in Digits

\* float(x) in hundredths, for a text that IsFloat accepts
FloatHundredths(x) ==
    LET u    == Unsigned(x)
        dots == Positions(u, ".")
        dot  == IF dots = {} THEN Len(u) + 1 ELSE CHOOSE i \in dots : TRUE
        whole == DigitsToInt(SubSeq(u, 1, dot - 1))
        frac == SubSeq(u, dot + 1, Len(u))
        d1   == IF Len(frac) >= 1 THEN DigitVal(frac[1]) ELSE 0
        d2   == IF Len(frac) >= 2 THEN DigitVal(frac[2]) ELSE 0
        mag  == whole * 100 + d1 * 10 + d2
    IN  IF x # << >> /\ x[1] = "-" THEN -mag ELSE mag

Ok(v) == [ok |-> TRUE, v |-> v, err |-> "none"]

Raise(e) == [ok |-> FALSE, v |-> 0, err |-> e]

\* the parts before and after the first '+' taken without counting the parts
ParseStationFirstTwo(station_str) ==
    LET plus == Positions(station_str, "+")
    IN  IF plus = {} THEN Raise("IndexError")
        ELSE LET p  == CHOOSE i \in plus : \A j \in plus : i <= j
                 q  == IF Cardinality(plus) = 1 THEN Len(station_str) + 1
                       ELSE CHOOSE i \in plus \ {p} : \A j \in plus \ {p} : i <= j
                 p0 == SubSeq(station_str, 1, p - 1)
                 p1 == SubSeq(station_str, p + 1, q - 1)
             IN  IF ~IsFloat(p0) \/ ~IsFloat(p1) THEN Raise("ValueError")
                 ELSE Ok(FloatHundredths(p0) * 100 + FloatHundredths(p1))

\* parse_station: "24+04.67" -> 2404.67 ft (here 240467 hundredths)
ParseStation(station_str) ==
    LET plus == Positions(station_str, "+")
    IN  IF Cardinality(plus) # 1 THEN Raise("ValueError")
        ELSE LET p  == CHOOSE i \in plus : TRUE
                 p0 == SubSeq(station_str, 1, p - 1)
                 p1 == SubSeq(station_str, p + 1, Len(station_str))
             IN  IF ~IsFloat(p0) \/ ~IsFloat(p1) THEN Raise("ValueError")
                 ELSE Ok(FloatHundredths(p0) * 100 + FloatHundredths(p1))

DigitChar(d) ==
    CASE d = 0 -> "0" [] d = 1 -> "1" [] d = 2 -> "2" [] d = 3 -> "3"
      [] d = 4 -> "4" [] d = 5 -> "5" [] d = 6 -> "6" [] d = 7 -> "7"
      [] d = 8 -> "8" [] d = 9 -> "9"

\* str(n) for an integer n >= 0
RECURSIVE NatText(_)
NatText(n) ==
    IF n < 10 THEN <<DigitChar(n)>>
    ELSE Append(NatText(n \div 10), DigitChar(n % 10))

\* f"{n}" for an integer n
IntText(n) == IF n < 0 THEN <<"-">> \o NatText(-n) ELSE NatText(n)

\* f"{x:.2f}" for x given in hundredths
Fixed2(x) ==
    (IF x < 0 THEN <<"-">> ELSE << >>)
        \o NatText(Abs(x) \div 100)
        \o <<".", DigitChar((Abs(x) \div 10) % 10), DigitChar(Abs(x) % 10)>>

\* the whole station value printed after the '+' instead of the remainder
FormatStationWhole(station_value) ==
    IntText(TruncDiv(station_value, 10000)) \o <<"+">> \o Fixed2(station_value)

\* format_station: 2404.67 ft (240467 hundredths) -> "24+4.67"
FormatStation(station_value) ==
    IntText(TruncDiv(station_value, 10000)) \o <<"+">>
        \o Fixed2(station_value - TruncDiv(station_value, 10000) * 10000)

\* str.split(): the maximal runs of characters that are not blanks
RECURSIVE Tokens(_)
Tokens(s) ==
    IF s = << >> THEN << >>
    ELSE IF s[1] = " " THEN Tokens(Tail(s))
    ELSE LET blanks == Positions(s, " ")
             stop == IF blanks = {} THEN Len(s) + 1
                     ELSE CHOOSE i \in blanks : \A j \in blanks : i <= j
         IN  <<SubSeq(s, 1, stop - 1)>> \o Tokens(SubSeq(s, stop, Len(s)))

\* a minute or second token that is not a number taken for 0
ParseAngleLenient(angle_str) ==
    LET blanked == [i \in 1..Len(angle_str) |->
                      IF angle_str[i] \in {"'", "\""} THEN " " ELSE angle_str[i]]
        parts == Tokens(blanked)
    IN  IF parts = << >> THEN Raise("IndexError")
        ELSE IF ~IsFloat(parts[1]) THEN Raise("ValueError")
        ELSE Ok(FloatHundredths(parts[1]) * 3600
                + (IF Len(parts) > 1 /\ IsFloat(parts[2])
                   THEN FloatHundredths(parts[2]) * 60 ELSE 0)
                + (IF Len(parts) > 2 /\ IsFloat(parts[3])
                   THEN FloatHundredths(parts[3]) ELSE 0))

\* parse_angle: "9 30'00\"" -> degrees + minutes/60 + seconds/3600, here in
\* hundredths of an arc-second
ParseAngle(angle_str) ==
    LET blanked == [i \in 1..Len(angle_str) |->
                      IF angle_str[i] \in {"'", "\""} THEN " " ELSE angle_str[i]]
        parts == Tokens(blanked)
    IN  IF parts = << >> THEN Raise("IndexError")
        ELSE IF \E i \in 1..Len(parts) : i <= 3 /\ ~IsFloat(parts[i])
        THEN Raise("ValueError")
        ELSE Ok(FloatHundredths(parts[1]) * 3600
                + (IF Len(parts) > 1 THEN FloatHundredths(parts[2]) * 60 ELSE 0)
                + (IF Len(parts) > 2 THEN FloatHundredths(parts[3]) ELSE 0))

\* a radius: finite (hundredths of a foot) or float('inf')
Finite(r) == [inf |-> FALSE, v |-> r]

Infinite == [inf |-> TRUE, v |-> 0]

\* calculate_radius_from_degree_of_curve: R = 5729.578 / Dc, Dc in hundredths
\* of an arc-second
CalculateRadiusFromDegreeOfCurve(degree_of_curve) ==
    IF degree_of_curve <= 0 THEN Infinite
    ELSE Finite(RatScale(360000, degree_of_curve, 572958))

(***************************************************************************)
(* Coordinates.  A point is <<lat, lon>> in micro-degrees.                 *)
(***************************************************************************)
\* feet per degree of latitude
LatFtPerDeg == 364000

\* sample counts given to the generators; the alignment passes num_points=20
\* and steps=100, the model samples each segment more coarsely
TangentNumPoints == 3

CurveSteps == 2

\* a float nan coordinate
NaN == -2000000000

NaNPoint == <<NaN, NaN>>

Last(seq) == seq[Len(seq)]

\* feet per degree of longitude at a latitude: lat_ft_per_deg * cos(lat)
LonFtPerDeg(lat) == (LatFtPerDeg * CosFP(FloorDiv(lat, 10000))) \div 1000

\* the point a distance (hundredths of a foot) from start along a bearing
Offset(start, bearing_deg, dist) ==
    <<start[1] + FloorDiv(dist * CosFP(bearing_deg) * 10, LatFtPerDeg),
      start[2] + FloorDiv(dist * SinFP(bearing_deg) * 10, LonFtPerDeg(start[1]))>>

\* str.lower() on the direction strings
Lower(direction) ==
    CASE direction = "Right" -> "right"
      [] direction = "Left" -> "left"
      [] OTHER -> direction

\* add_railway_tangent_to_map, the start point / bearing / length mode:
\* num_points evenly spaced points from the start point to the end point
AddRailwayTangentToMap(start_point, bearing_deg, length_ft, num_points) ==
    LET end_point == Offset(start_point, bearing_deg, length_ft)
    IN  [i \in 1..num_points |->
           <<start_point[1]
               + FloorDiv((i - 1) * (end_point[1] - start_point[1]), num_points - 1),
             start_point[2]
               + FloorDiv((i - 1) * (end_point[2] - start_point[2]), num_points - 1)>>]

\* create_railway_spiral: the start point, then one point per step at the end
\* of the chord to arc distance s[i]; a zero spiral length divides 0 by 0
CreateRailwaySpiral(start_point, bearing_deg, spiral_length_ft, radius_ft, direction, steps) ==
    LET Pt(i) ==
          LET distance == FloorDiv(i * spiral_length_ft, steps)
              den == 2 * radius_ft.v * spiral_length_ft
              half == IF radius_ft.inf THEN 0
                      ELSE TruncDiv(Degrees(distance * distance, den), 2)
              mrad == IF radius_ft.inf THEN 0
                      ELSE RatScale(distance * distance, den, 1000)
              chord_length == distance - TruncDiv(distance * mrad * mrad, 10000000)
              chord_bearing == IF Lower(direction) = "left"
                               THEN bearing_deg + half
                               ELSE bearing_deg - half
          IN  IF spiral_length_ft = 0 THEN NaNPoint
              ELSE Offset(start_point, chord_bearing, chord_length)
    IN  [i \in 1..(steps + 1) |-> IF i = 1 THEN start_point ELSE Pt(i - 1)]

\* the spiral angle s^2 / (2 R Ls) at arc distance s, in milliradians
SpiralAngle(s, spiral_length_ft, radius_ft) ==
    RatScale(s * s, 2 * radius_ft.v * spiral_length_ft, 1000)

\* x_local = s - s^5/(40 A^4) + s^9/(3456 A^8) with A^2 = R Ls, which is
\* s (1 - t^2/10 + t^4/216) for the spiral angle t; hundredths of a foot
FresnelX(s, mrad) ==
    s - TruncDiv(s * mrad * mrad, 10000000)
      + TruncDiv(s * ((((mrad * mrad) \div 1000) * ((mrad * mrad) \div 1000)) \div 1000),
                 216000)

\* y_local = s^3/(6 A^2) - s^7/(336 A^6), which is s (t/3 - t^3/42)
FresnelY(s, mrad) ==
    TruncDiv(s * mrad, 3000)
      - TruncDiv(s * mrad * ((mrad * mrad) \div 1000), 42000000)

\* the local offsets (x along the entry bearing, y across it, to the side the
\* generator bends to) turned by the bearing and added to the start point
LocalToPoint(start, bearing_deg, x, y) ==
    <<start[1] + FloorDiv((x * CosFP(bearing_deg) - y * SinFP(bearing_deg)) * 10,
                          LatFtPerDeg),
      start[2] + FloorDiv((x * SinFP(bearing_deg) + y * CosFP(bearing_deg)) * 10,
                          LonFtPerDeg(start[1]))>>

\* create_railway_circular_curve, the bearing / arc length mode
CreateRailwayCircularCurve(start_point, bearing_deg, arc_length_ft, radius_ft, direction, steps) ==
    LET sign == IF Lower(direction) = "left" THEN 1 ELSE -1
        Pt(i) ==
          LET arc_dist == FloorDiv(i * arc_length_ft, steps)
              half == TruncDiv(Degrees(arc_dist, radius_ft.v), 2)
              chord == FloorDiv(2 * radius_ft.v * SinFP(half), 1000)
          IN  IF radius_ft.inf THEN NaNPoint
              ELSE Offset(start_point, bearing_deg + sign * half, chord)
    IN  [i \in 1..(steps + 1) |-> IF i = 1 THEN start_point ELSE Pt(i - 1)]

\* folium rejects a polyline that has a nan location
HasNaN(coords) == \E i \in 1..Len(coords) : coords[i] = NaNPoint

(***************************************************************************)
(* Curve assembler (utils/railway_curve.py)                                *)
(***************************************************************************)
\* L**2 / (2 * R * L) divides by a float zero
SpiralDeflectionRaises(length_ft, radius_ft) ==
    ~radius_ft.inf /\ 2 * radius_ft.v * length_ft = 0

\* np.degrees(L**2 / (2 * R * L)), in centi-degrees
SpiralDeflectionDeg(length_ft, radius_ft) ==
    IF radius_ft.inf THEN (IF length_ft = 0 THEN NaN ELSE 0)
    ELSE Degrees(length_ft * length_ft, 2 * radius_ft.v * length_ft)

\* np.degrees(arc / R), in centi-degrees
CircularDeflectionDeg(arc_length_ft, radius_ft) ==
    IF radius_ft.inf THEN 0 ELSE Degrees(arc_length_ft, radius_ft.v)

\* the two turn senses exchanged
DeflectSwapped(bearing_deg, deflection_deg, direction) ==
    IF direction = "right" THEN bearing_deg + deflection_deg
    ELSE bearing_deg - deflection_deg

\* the bearing after a deflection: minus for direction 'right', plus otherwise
Deflect(bearing_deg, deflection_deg, direction) ==
    IF direction = "right" THEN bearing_deg - deflection_deg
    ELSE bearing_deg + deflection_deg

CurveFailure(e) ==
    [err |-> e, sc_point |-> None, cs_point |-> None, st_point |-> None,
     all_coords |-> << >>]

\* a polyline that draws without error on a map that is None
PolyLineAddToAnyMap(locations, m_none) ==
    IF HasNaN(locations) THEN "ValueError" ELSE "none"

\* the error of folium.PolyLine(locations).add_to(m), "none" when it succeeds;
\* m_none: the map argument is None, whose add_child does not exist
PolyLineAddTo(locations, m_none) ==
    IF HasNaN(locations) THEN "ValueError"
    ELSE IF m_none THEN "AttributeError"
    ELSE "none"

\* add_railway_spiral_to_map: draws only when a map is given
AddRailwaySpiralToMapError(spiral_coords, m_none) ==
    IF m_none THEN "none" ELSE PolyLineAddTo(spiral_coords, m_none)

\* add_railway_circular_curve_to_map: formats int(radius_ft), then draws
\* without looking at the map argument
AddRailwayCircularCurveToMapError(curve_coords, radius_ft, m_none) ==
    IF radius_ft.inf THEN "OverflowError"
    ELSE PolyLineAddTo(curve_coords, m_none)

\* add_complete_railway_curve_to_map: entry spiral, circular curve, exit
\* spiral, each started at the end point and bearing of the one before
AddCompleteRailwayCurveToMap(m_none, ts_point, ts_bearing_deg, entry_spiral_length_ft, circular_arc_length_ft, exit_spiral_length_ft, radius_ft, direction, add_white_pattern) ==
    LET entry_spiral_coords ==
          CreateRailwaySpiral(ts_point, ts_bearing_deg, entry_spiral_length_ft,
                              radius_ft, direction, CurveSteps)
        e1 == AddRailwaySpiralToMapError(entry_spiral_coords, m_none)
        w1 == IF add_white_pattern THEN PolyLineAddTo(entry_spiral_coords, m_none)
              ELSE "none"
        sc_point == Last(entry_spiral_coords)
        sc_bearing ==
          Deflect(ts_bearing_deg,
                  SpiralDeflectionDeg(entry_spiral_length_ft, radius_ft), direction)
        circular_curve_coords ==
          CreateRailwayCircularCurve(sc_point, sc_bearing, circular_arc_length_ft,
                                     radius_ft, direction, CurveSteps)
        e2 == AddRailwayCircularCurveToMapError(circular_curve_coords, radius_ft,
                                                m_none)
        w2 == IF add_white_pattern THEN PolyLineAddTo(circular_curve_coords, m_none)
              ELSE "none"
        cs_point == Last(circular_curve_coords)
        cs_bearing ==
          Deflect(sc_bearing,
                  CircularDeflectionDeg(circular_arc_length_ft, radius_ft), direction)
        exit_spiral_coords ==
          CreateRailwaySpiral(cs_point, cs_bearing, exit_spiral_length_ft,
                              radius_ft, direction, CurveSteps)
        e3 == AddRailwaySpiralToMapError(exit_spiral_coords, m_none)
        w3 == IF add_white_pattern THEN PolyLineAddTo(exit_spiral_coords, m_none)
              ELSE "none"
    IN  IF e1 # "none" THEN CurveFailure(e1)
        ELSE IF w1 # "none" THEN CurveFailure(w1)
        ELSE IF SpiralDeflectionRaises(entry_spiral_length_ft, radius_ft)
        THEN CurveFailure("ZeroDivisionError")
        ELSE IF e2 # "none" THEN CurveFailure(e2)
        ELSE IF w2 # "none" THEN CurveFailure(w2)
        ELSE IF e3 # "none" THEN CurveFailure(e3)
        ELSE IF w3 # "none" THEN CurveFailure(w3)
        ELSE [err |-> "none",
              sc_point |-> Some(sc_point),
              cs_point |-> Some(cs_point),
              st_point |-> Some(Last(exit_spiral_coords)),
              all_coords |-> entry_spiral_coords \o circular_curve_coords
                               \o exit_spiral_coords]

(***************************************************************************)
(* Segments (utils/railway_alignment.py)                                   *)
(***************************************************************************)
\* TangentSegment.__init__; a CurveSegment has no start_station_value
TangentSegment(start_station, end_station) ==
    LET s == ParseStation(start_station)
        e == ParseStation(end_station)
    IN  IF ~s.ok THEN Raise(s.err)
        ELSE IF ~e.ok THEN Raise(e.err)
        ELSE Ok([type |-> "tangent",
                 start_station_value |-> Some(s.v),
                 end_station_value |-> Some(e.v),
                 length_ft |-> e.v - s.v,
                 manual_bearing |-> None,
                 ts_station_value |-> None,
                 st_station_value |-> None,
                 entry_spiral_length |-> 0,
                 circular_arc_length |-> 0,
                 exit_spiral_length |-> 0,
                 radius_ft |-> Finite(0),
                 direction |-> "",
                 start_point |-> None, end_point |-> None, coords |-> << >>,
                 ts_point |-> None, sc_point |-> None,
                 cs_point |-> None, st_point |-> None,
                 ts_bearing |-> None, sc_bearing |-> None,
                 cs_bearing |-> None, st_bearing |-> None])

\* a radius of 573 ft taken when neither argument is given
CurveRadiusDefault(degree_of_curve, radius_ft) ==
    IF degree_of_curve # None
    THEN LET d == ParseAngle(degree_of_curve[1])
         IN  IF ~d.ok THEN Raise(d.err)
             ELSE Ok(CalculateRadiusFromDegreeOfCurve(d.v))
    ELSE IF radius_ft # None
    THEN IF radius_ft[1] = 0 THEN Raise("ZeroDivisionError")
         ELSE Ok(Finite(radius_ft[1]))
    ELSE Ok(Finite(57300))

\* the radius CurveSegment.__init__ stores, or the error it raises
CurveRadius(degree_of_curve, radius_ft) ==
    IF degree_of_curve # None
    THEN LET d == ParseAngle(degree_of_curve[1])
         IN  IF ~d.ok THEN Raise(d.err)
             ELSE Ok(CalculateRadiusFromDegreeOfCurve(d.v))
    ELSE IF radius_ft # None
    THEN IF radius_ft[1] = 0 THEN Raise("ZeroDivisionError")
         ELSE Ok(Finite(radius_ft[1]))
    ELSE Raise("ValueError")

\* CurveSegment.__init__
CurveSegment(ts_station, sc_station, cs_station, st_station, degree_of_curve, radius_ft, direction) ==
    LET ts == ParseStation(ts_station)
        sc == ParseStation(sc_station)
        cs == ParseStation(cs_station)
        st == ParseStation(st_station)
        r  == CurveRadius(degree_of_curve, radius_ft)
    IN  IF ~ts.ok THEN Raise(ts.err)
        ELSE IF ~sc.ok THEN Raise(sc.err)
        ELSE IF ~cs.ok THEN Raise(cs.err)
        ELSE IF ~st.ok THEN Raise(st.err)
        ELSE IF ~r.ok THEN Raise(r.err)
        ELSE Ok([type |-> "spiral_curve_spiral",
                 start_station_value |-> None,
                 end_station_value |-> None,
                 length_ft |-> 0,
                 manual_bearing |-> None,
                 ts_station_value |-> Some(ts.v),
                 st_station_value |-> Some(st.v),
                 entry_spiral_length |-> sc.v - ts.v,
                 circular_arc_length |-> cs.v - sc.v,
                 exit_spiral_length |-> st.v - cs.v,
                 radius_ft |-> r.v,
                 direction |-> direction,
                 start_point |-> None, end_point |-> None, coords |-> << >>,
                 ts_point |-> None, sc_point |-> None,
                 cs_point |-> None, st_point |-> None,
                 ts_bearing |-> None, sc_bearing |-> None,
                 cs_bearing |-> None, st_bearing |-> None])

\* what a segment's add_to_map returns: the error, the segment as it is left,
\* the bearing the generator was given, and the end point and bearing
SegmentResult(err, seg, gen, pt, b) ==
    [err |-> err, seg |-> seg, gen_bearing |-> gen, end_point |-> pt,
     end_bearing |-> b]

\* a manual bearing of 0 taken for no manual bearing
ActualBearingTruthy(manual_bearing, bearing_deg) ==
    IF manual_bearing # None /\ manual_bearing[1] # 0 THEN manual_bearing[1]
    ELSE bearing_deg

\* the bearing a tangent is drawn with and hands on: its manual bearing when
\* that is not None, the bearing it received otherwise
ActualBearing(manual_bearing, bearing_deg) ==
    IF manual_bearing # None THEN manual_bearing[1] ELSE bearing_deg

\* TangentSegment.add_to_map after the points were generated
TangentStore(seg, start_point, actual_bearing, tangent_coords) ==
    SegmentResult("none",
                  [seg EXCEPT !.start_point = Some(start_point),
                              !.coords = tangent_coords,
                              !.end_point = Some(Last(tangent_coords))],
                  actual_bearing, Last(tangent_coords), actual_bearing)

\* TangentSegment.add_to_map
TangentAddToMap(seg, start_point, bearing_deg) ==
    TangentStore(seg, start_point,
        ActualBearing(seg.manual_bearing, bearing_deg),
        AddRailwayTangentToMap(start_point,
            ActualBearing(seg.manual_bearing, bearing_deg),
            seg.length_ft, TangentNumPoints))

\* CurveSegment.add_to_map after the curve was generated: the points and the
\* coordinates are stored, then the three bearings are computed
CurveStore(seg, entered, start_point, bearing_deg, curve_result) ==
    LET stored == [entered EXCEPT !.sc_point = curve_result.sc_point,
                                  !.cs_point = curve_result.cs_point,
                                  !.st_point = curve_result.st_point,
                                  !.coords = curve_result.all_coords]
        sc_bearing == Deflect(bearing_deg,
                        SpiralDeflectionDeg(seg.entry_spiral_length, seg.radius_ft),
                        seg.direction)
        cs_bearing == Deflect(sc_bearing,
                        CircularDeflectionDeg(seg.circular_arc_length, seg.radius_ft),
                        seg.direction)
        st_bearing == Deflect(cs_bearing,
                        SpiralDeflectionDeg(seg.exit_spiral_length, seg.radius_ft),
                        seg.direction)
    IN  IF curve_result.err # "none"
        THEN SegmentResult(curve_result.err, entered, bearing_deg, start_point,
                           bearing_deg)
        ELSE IF \/ SpiralDeflectionRaises(seg.entry_spiral_length, seg.radius_ft)
                \/ SpiralDeflectionRaises(seg.exit_spiral_length, seg.radius_ft)
        THEN SegmentResult("ZeroDivisionError", stored, bearing_deg, start_point,
                           bearing_deg)
        ELSE SegmentResult("none",
                           [stored EXCEPT !.sc_bearing = Some(sc_bearing),
                                          !.cs_bearing = Some(cs_bearing),
                                          !.st_bearing = Some(st_bearing)],
                           bearing_deg, curve_result.st_point[1], st_bearing)

\* CurveSegment.add_to_map
CurveAddToMap(seg, start_point, bearing_deg) ==
    CurveStore(seg,
               [seg EXCEPT !.ts_point = Some(start_point),
                           !.ts_bearing = Some(bearing_deg)],
               start_point, bearing_deg,
               AddCompleteRailwayCurveToMap(FALSE, start_point, bearing_deg,
                   seg.entry_spiral_length, seg.circular_arc_length,
                   seg.exit_spiral_length, seg.radius_ft, seg.direction, FALSE))

\* segment.add_to_map(m, point, bearing), dispatched on the segment's class
SegmentAddToMap(seg, start_point, bearing_deg) ==
    IF seg.type = "tangent" THEN TangentAddToMap(seg, start_point, bearing_deg)
    ELSE CurveAddToMap(seg, start_point, bearing_deg)

\* no manual bearing taken for north
HiddenBearingOrZero(manual_bearing, current_bearing) ==
    IF manual_bearing = None THEN 0 ELSE manual_bearing[1]

\* the same choice in the hide_technical_info loop
HiddenBearing(manual_bearing, current_bearing) ==
    IF manual_bearing = None THEN current_bearing ELSE manual_bearing[1]

\* the hide_technical_info loop on a tangent after its points were generated
HiddenTangentStore(seg, gen, coords) ==
    SegmentResult("none", [seg EXCEPT !.coords = coords], gen, Last(coords), gen)

\* the hide_technical_info loop on a curve after the curve was generated
HiddenCurveStore(seg, current_point, current_bearing, curve_result) ==
    LET stored == [seg EXCEPT !.coords = curve_result.all_coords]
        entry_deflection ==
          SpiralDeflectionDeg(seg.entry_spiral_length, seg.radius_ft)
        circular_deflection ==
          CircularDeflectionDeg(seg.circular_arc_length, seg.radius_ft)
        exit_deflection ==
          SpiralDeflectionDeg(seg.exit_spiral_length, seg.radius_ft)
    IN  IF curve_result.err # "none"
        THEN SegmentResult(curve_result.err, seg, current_bearing,
                           current_point, current_bearing)
        ELSE IF \/ SpiralDeflectionRaises(seg.entry_spiral_length, seg.radius_ft)
                \/ SpiralDeflectionRaises(seg.exit_spiral_length, seg.radius_ft)
        THEN SegmentResult("ZeroDivisionError", stored, current_bearing,
                           current_point, current_bearing)
        ELSE SegmentResult("none", stored, current_bearing,
               curve_result.st_point[1],
               IF seg.direction = "right"
               THEN current_bearing - entry_deflection - circular_deflection
                      - exit_deflection
               ELSE current_bearing + entry_deflection + circular_deflection
                      + exit_deflection)

\* one pass of the hide_technical_info loop over a segment: the generators are
\* called with m=None and the default add_white_pattern=True
HiddenSegment(seg, current_point, current_bearing) ==
    IF seg.type = "tangent"
    THEN HiddenTangentStore(seg,
             HiddenBearing(seg.manual_bearing, current_bearing),
             AddRailwayTangentToMap(current_point,
                 HiddenBearing(seg.manual_bearing, current_bearing),
                 seg.length_ft, TangentNumPoints))
    ELSE HiddenCurveStore(seg, current_point, current_bearing,
             AddCompleteRailwayCurveToMap(TRUE, current_point, current_bearing,
                 seg.entry_spiral_length, seg.circular_arc_length,
                 seg.exit_spiral_length, seg.radius_ft, seg.direction, TRUE))

\* all_coords replaced by the segment's coordinates instead of extended
CollectOverwrites(r, i, res) ==
    [segs |-> [r.segs EXCEPT ![i] = res.seg],
     sc |-> Append(r.sc, res.seg.coords),
     ac |-> res.seg.coords,
     point |-> res.end_point,
     bearing |-> res.end_bearing,
     trace |-> Append(r.trace,
                 [type |-> r.segs[i].type,
                  manual_bearing |-> r.segs[i].manual_bearing,
                  in_point |-> r.point,
                  in_bearing |-> r.bearing,
                  gen_bearing |-> res.gen_bearing,
                  out_point |-> res.end_point,
                  out_bearing |-> res.end_bearing]),
     err |-> "none"]

\* the end of one pass of the loop: the segment's coordinates are appended to
\* segment_coords and all_coords, and its end point and bearing become current
Collect(r, i, res) ==
    [segs |-> [r.segs EXCEPT ![i] = res.seg],
     sc |-> Append(r.sc, res.seg.coords),
     ac |-> r.ac \o res.seg.coords,
     point |-> res.end_point,
     bearing |-> res.end_bearing,
     trace |-> Append(r.trace,
                 [type |-> r.segs[i].type,
                  manual_bearing |-> r.segs[i].manual_bearing,
                  in_point |-> r.point,
                  in_bearing |-> r.bearing,
                  gen_bearing |-> res.gen_bearing,
                  out_point |-> res.end_point,
                  out_bearing |-> res.end_bearing]),
     err |-> "none"]

\* the loop over self.segments of RailwayAlignment.add_to_map, from segment i
\* on; it stops at the first segment that raises and keeps what was stored
RECURSIVE Walk(_, _, _)
\* the loop after segment i was processed with result res
WalkOn(i, hide_technical_info, r, res) ==
    IF res.err # "none"
    THEN [r EXCEPT !.segs[i] = res.seg, !.err = res.err]
    ELSE Walk(i + 1, hide_technical_info, Collect(r, i, res))

Walk(i, hide_technical_info, r) ==
    IF i > Len(r.segs) THEN r
    ELSE WalkOn(i, hide_technical_info, r,
                IF hide_technical_info
                THEN HiddenSegment(r.segs[i], r.point, r.bearing)
                ELSE SegmentAddToMap(r.segs[i], r.point, r.bearing))

\* station_to_gis without an alignment: the reference point moved along the
\* track direction; scale in nano-degrees per foot, direction in thousandths
StationToGis(reference_point, reference_station, target_station, track_params) ==
    LET station_distance == target_station - reference_station
        gis_distance == FloorDiv(station_distance * track_params.scale, 100000)
    IN  <<reference_point[1] + FloorDiv(gis_distance * track_params.direction[1], 1000),
          reference_point[2] + FloorDiv(gis_distance * track_params.direction[2], 1000)>>

\* the floor of the square root of n, found between lo and hi
RECURSIVE ISqrtIn(_, _, _)
ISqrtIn(n, lo, hi) ==
    IF lo >= hi THEN lo
    ELSE LET mid == (lo + hi + 1) \div 2
         IN  IF mid * mid <= n THEN ISqrtIn(n, mid, hi)
             ELSE ISqrtIn(n, lo, mid - 1)

\* np.linalg.norm of a vector of two components
Norm(vector) ==
    LET n == vector[1] * vector[1] + vector[2] * vector[2]
    IN  ISqrtIn(n, 0, IF n < 46340 THEN n ELSE 46340)

\* the arc tangent of z thousandths, 0 <= z <= 1000, in hundredths of a degree
ArcTanFP(z) ==
    (4500 * z) \div 1000
        + (z * (1000 - z) * (1402 + (380 * z) \div 1000)) \div 1000000

\* np.degrees(np.arctan2(y, x)) in hundredths of a degree; arctan2(0, 0) is 0
ArcTan2(y, x) ==
    LET ax == Abs(x)
        ay == Abs(y)
        base == IF ax = 0 /\ ay = 0 THEN 0
                ELSE IF ax >= ay THEN ArcTanFP((ay * 1000) \div ax)
                ELSE 9000 - ArcTanFP((ax * 1000) \div ay)
    IN  IF x >= 0 THEN (IF y >= 0 THEN base ELSE -base)
        ELSE IF y >= 0 THEN 18000 - base ELSE base - 18000

\* the float inf that numpy's division of a positive number by zero gives
PosInf == 2000000000

\* calculate_track_parameters: the bearing of p2 - p1, the scale in
\* nano-degrees per foot, the unit vector in thousandths; numpy divides by
\* zero without raising (x/0 is inf, 0/0 is nan)
CalculateTrackParameters(point1, station1, point2, station2) ==
    LET vector == <<point2[1] - point1[1], point2[2] - point1[2]>>
        gis_distance == Norm(vector)
        station_distance == station2 - station1
    IN  [bearing_deg |-> ArcTan2(vector[2], vector[1]),
         scale |-> IF station_distance = 0
                   THEN IF gis_distance = 0 THEN NaN ELSE PosInf
                   ELSE FloorDiv(gis_distance * 100000, station_distance),
         direction |-> IF gis_distance = 0 THEN <<NaN, NaN>>
                       ELSE <<FloorDiv(vector[1] * 1000, gis_distance),
                              FloorDiv(vector[2] * 1000, gis_distance)>>]

\* the error get_coordinates_for_station_range raises before it slices
StationRangeError(segs, ac) ==
    IF ac = << >> THEN "ValueError"
    ELSE IF segs # << >> /\ segs[1].start_station_value = None
    THEN "AttributeError"
    ELSE "none"

\* the length get_coordinates_for_station_range adds to the running station
SegmentSpan(segment) ==
    IF segment.type = "tangent" THEN segment.length_ft
    ELSE IF segment.type = "spiral_curve_spiral"
    THEN segment.entry_spiral_length + segment.circular_arc_length
           + segment.exit_spiral_length
    ELSE 0

\* int(pct * (n - 1)) for pct = (station - segment_start) / segment_length
PctIndex(station, segment_start, segment_length, n) ==
    TruncDiv((station - segment_start) * (n - 1), segment_length)

Min(a, b) == IF a < b THEN a ELSE b

Max(a, b) == IF a > b THEN a ELSE b

\* the index of the first point taken from a segment of n points
StartIdx(n, segment_start, segment_end, start_station_value) ==
    IF /\ segment_start <= start_station_value
       /\ start_station_value <= segment_end
       /\ segment_end - segment_start > 0
    THEN Max(0, Min(PctIndex(start_station_value, segment_start,
                             segment_end - segment_start, n), n - 1))
    ELSE Max(0, Min(0, n - 1))

\* the index after the last point taken from a segment of n points
EndIdx(n, segment_start, segment_end, end_station_value, start_idx) ==
    IF /\ segment_start <= end_station_value
       /\ end_station_value <= segment_end
       /\ segment_end - segment_start > 0
    THEN Max(start_idx + 1,
             Min(PctIndex(end_station_value, segment_start,
                          segment_end - segment_start, n) + 1, n))
    ELSE Max(start_idx + 1, Min(n, n))

\* a Python slice list[start_idx:end_idx] with 0 <= start_idx <= end_idx
Slice(list, start_idx, end_idx) ==
    SubSeq(list, start_idx + 1, Min(end_idx, Len(list)))

\* what the loop of get_coordinates_for_station_range has gathered: the
\* coordinates, and for every overlapping segment the indices it sliced with
Gathered(err, coords, idx) == [err |-> err, coords |-> coords, idx |-> idx]

\* one overlapping segment: its slice put before what the later segments give
RangeTake(i, seg_coords, segment_start, segment_end, start_idx, end_idx, rest) ==
    Gathered(rest.err,
             Slice(seg_coords, start_idx, end_idx) \o rest.coords,
             <<[i |-> i, n |-> Len(seg_coords),
                segment_start |-> segment_start, segment_end |-> segment_end,
                start_idx |-> start_idx, end_idx |-> end_idx]>> \o rest.idx)

\* the loop over the segments from segment i on, the running station being
\* current_station; self.segment_coords[i] raises IndexError when the segment
\* was added after the last realization
RECURSIVE RangeWalk(_, _, _, _, _, _)
RangeOn(segs, sc, i, segment_start, segment_end, start_station_value, end_station_value) ==
    IF segment_end >= start_station_value /\ segment_start <= end_station_value
    THEN IF i > Len(sc) THEN Gathered("IndexError", << >>, << >>)
         ELSE RangeTake(i, sc[i], segment_start, segment_end,
                        StartIdx(Len(sc[i]), segment_start, segment_end,
                                 start_station_value),
                        EndIdx(Len(sc[i]), segment_start, segment_end,
                               end_station_value,
                               StartIdx(Len(sc[i]), segment_start, segment_end,
                                        start_station_value)),
                        RangeWalk(segs, sc, i + 1, segment_end,
                                  start_station_value, end_station_value))
    ELSE RangeWalk(segs, sc, i + 1, segment_end, start_station_value,
                   end_station_value)

RangeWalk(segs, sc, i, current_station, start_station_value, end_station_value) ==
    IF i > Len(segs) THEN Gathered("none", << >>, << >>)
    ELSE RangeOn(segs, sc, i, current_station,
                 current_station + SegmentSpan(segs[i]),
                 start_station_value, end_station_value)

\* a station argument that may be a string: parsed when it is one
StationArg(arg) == IF arg.is_str THEN ParseStation(arg.text) ELSE Ok(arg.num)

\* get_coordinates_for_station_range as a function of the alignment's lists
CoordinatesForStationRange(segs, sc, ac, start_station, end_station) ==
    IF ac = << >> THEN Raise("ValueError")
    ELSE IF ~StationArg(start_station).ok THEN Raise(StationArg(start_station).err)
    ELSE IF ~StationArg(end_station).ok THEN Raise(StationArg(end_station).err)
    ELSE IF segs = << >> THEN Ok(Gathered("none", << >>, << >>))
    ELSE IF segs[1].start_station_value = None THEN Raise("AttributeError")
    ELSE Ok(RangeWalk(segs, sc, 1, segs[1].start_station_value[1],
                      StationArg(start_station).v, StationArg(end_station).v))

\* the loop of station_to_gis over the segments of an alignment from segment
\* i on: the sampled point of the first segment whose span holds the target
\* station, an exception (a division by zero for a span of no length, an
\* IndexError for a segment without coordinates), or no segment found
RECURSIVE StationToGisWalk(_, _, _, _, _)
StationToGisWalk(segs, sc, i, current_station, target_station) ==
    IF i > Len(segs) THEN Raise("not found")
    ELSE IF /\ current_station <= target_station
            /\ target_station <= current_station + SegmentSpan(segs[i])
    THEN IF SegmentSpan(segs[i]) = 0 THEN Raise("ZeroDivisionError")
         ELSE IF i > Len(sc) THEN Raise("IndexError")
         ELSE Ok(sc[i][PctIndex(target_station, current_station,
                                SegmentSpan(segs[i]), Len(sc[i])) + 1])
    ELSE StationToGisWalk(segs, sc, i + 1,
                          current_station + SegmentSpan(segs[i]), target_station)

\* station_to_gis with an alignment: the walk starts at reference_station, and
\* anything it raises, or no segment found, falls back to the vector method
StationToGisAlignment(reference_point, reference_station, target_station, track_params, segs, sc, ac) ==
    IF /\ ac # << >>
       /\ StationToGisWalk(segs, sc, 1, reference_station, target_station).ok
    THEN StationToGisWalk(segs, sc, 1, reference_station, target_station).v
    ELSE StationToGis(reference_point, reference_station, target_station,
                      track_params)

\* render_track_type_sections: one station-range query for each section
RenderTrackTypeSectionsError(sections, segs, ac) ==
    IF sections = << >> THEN "none" ELSE StationRangeError(segs, ac)

(***************************************************************************)
(* Inputs                                                                  *)
(***************************************************************************)
Sta1000 == <<"1", "0", "+", "0", "0">>

Sta1050 == <<"1", "0", "+", "5", "0">>

Sta1100 == <<"1", "1", "+", "0", "0">>

Sta1150 == <<"1", "1", "+", "5", "0">>

StaNoPlus == <<"1", "0", "0", "0">>

Dc10 == <<"1", "0", " ", "0", "0", "'", "0", "0", "\"">>

\* add_tangent arguments: 100 ft, zero length, a malformed station
TangentInputs ==
    {<<Sta1000, Sta1100>>, <<Sta1100, Sta1100>>, <<StaNoPlus, Sta1100>>}

CurveInput(ts, sc, cs, st, dc, r, dir) ==
    [ts_station |-> ts, sc_station |-> sc, cs_station |-> cs, st_station |-> st,
     degree_of_curve |-> dc, radius_ft |-> r, direction |-> dir]

\* add_curve arguments: 50 ft spirals around a 50 ft arc, by radius and by
\* degree of curvature, to the right and to the left
CurveInputs ==
    {CurveInput(Sta1000, Sta1050, Sta1100, Sta1150, None, Some(57300), "right"),
     CurveInput(Sta1000, Sta1050, Sta1100, Sta1150, Some(Dc10), None, "left")}

\* values a caller assigns to a tangent's manual_bearing
ManualBearings == {0, 9000}

RefNames == {"A"}

RefCoords == <<33000000, -117000000>>

RefStation == 100000

\* a result of calculate_track_params: bearing 142 degrees
TrackParamsInputs ==
    {[bearing_deg |-> 14200, scale |-> 2747, direction |-> <<-788, 616>>]}

\* add_to_map's start_station argument
StartStationInputs == {None, Some(100000)}

SectionInput(t, s, e) == [track_type |-> t, start_station |-> s, end_station |-> e]

TextArg(chars) == [is_str |-> TRUE, text |-> chars, num |-> 0]

NumArg(n) == [is_str |-> FALSE, text |-> << >>, num |-> n]

\* add_track_type_section arguments
SectionInputs ==
    {SectionInput("Bridge", TextArg(Sta1000), NumArg(105000)),
     SectionInput("Trench", TextArg(StaNoPlus), NumArg(105000))}

(***************************************************************************)
(* RailwayAlignment                                                        *)
(***************************************************************************)
Call(op, err) ==
    [op |-> op, err |-> err, named |-> FALSE, params |-> FALSE, hide |-> FALSE,
     reached |-> FALSE, ret |-> None, args |-> << >>]

TrackTypeNames ==
    {"Standard Track", "Bridge", "Cut and Cover Tunnel", "Bored Tunnel",
     "U-Section", "Elevated"}

\* RailwayAlignment.__init__
Init ==
    /\ segments = << >>
    /\ segment_coords = << >>
    /\ all_coords = << >>
    /\ reference_points = << >>
    /\ track_type_sections = << >>
    /\ track_types = [t \in TrackTypeNames |-> << >>]
    /\ last = Call("init", "none")
    /\ trace = << >>
    /\ calls = 0

\* add_reference_point(name, coords, station_value)
AddReferencePoint(name, coords, station_value) ==
    /\ reference_points' =
         [n \in DOMAIN reference_points \cup {name} |->
            IF n = name THEN [coords |-> coords, station |-> station_value]
            ELSE reference_points[n]]
    /\ last' = Call("add_reference_point", "none")
    /\ UNCHANGED <<segments, segment_coords, all_coords, track_type_sections,
                   track_types, trace, calls>>

\* add_tangent appending before the stations are parsed: a failed call leaves
\* a segment without stations in the list
AddTangentAppendingFirst(start_station, end_station) ==
    /\ Len(segments) < MaxSegments
    /\ LET segment == TangentSegment(start_station, end_station)
       IN  /\ segments' = IF segment.ok THEN Append(segments, segment.v)
                          ELSE Append(segments,
                                 [TangentSegment(Sta1000, Sta1000).v EXCEPT
                                    !.start_station_value = None,
                                    !.end_station_value = None])
           /\ last' = Call("add_tangent", segment.err)
    /\ UNCHANGED <<segment_coords, all_coords, reference_points,
                   track_type_sections, track_types, trace, calls>>

\* add_tangent(start_station, end_station)
AddTangent(start_station, end_station) ==
    /\ Len(segments) < MaxSegments
    /\ LET segment == TangentSegment(start_station, end_station)
       IN  /\ segments' = IF segment.ok THEN Append(segments, segment.v)
                          ELSE segments
           /\ last' = Call("add_tangent", segment.err)
    /\ UNCHANGED <<segment_coords, all_coords, reference_points,
                   track_type_sections, track_types, trace, calls>>

\* add_curve(ts, sc, cs, st, degree_of_curve, radius_ft, direction)
AddCurve(in) ==
    /\ Len(segments) < MaxSegments
    /\ LET segment == CurveSegment(in.ts_station, in.sc_station, in.cs_station,
                                   in.st_station, in.degree_of_curve,
                                   in.radius_ft, in.direction)
       IN  /\ segments' = IF segment.ok THEN Append(segments, segment.v)
                          ELSE segments
           /\ last' = Call("add_curve", segment.err)
    /\ UNCHANGED <<segment_coords, all_coords, reference_points,
                   track_type_sections, track_types, trace, calls>>

\* segment.manual_bearing = bearing, on the handle add_tangent returned
SetManualBearing(i, bearing) ==
    /\ i \in 1..Len(segments)
    /\ segments[i].type = "tangent"
    /\ segments' = [segments EXCEPT ![i].manual_bearing = Some(bearing)]
    /\ last' = Call("set_manual_bearing", "none")
    /\ UNCHANGED <<segment_coords, all_coords, reference_points,
                   track_type_sections, track_types, trace, calls>>

\* a station argument of TrackTypeSection.__init__: parsed when it is a string
SectionStation(arg) ==
    IF arg.is_str THEN ParseStation(arg.text) ELSE Ok(arg.num)

\* add_track_type_section(track_type, start_station, end_station)
AddTrackTypeSection(in) ==
    /\ Len(track_type_sections) < MaxSections
    /\ LET s == SectionStation(in.start_station)
           e == SectionStation(in.end_station)
           section == [track_type |-> in.track_type,
                       start_station_value |-> s.v,
                       end_station_value |-> e.v]
       IN  IF ~s.ok \/ ~e.ok
           THEN /\ last' = Call("add_track_type_section",
                                IF ~s.ok THEN s.err ELSE e.err)
                /\ UNCHANGED <<track_type_sections, track_types>>
           ELSE /\ track_type_sections' = Append(track_type_sections, section)
                /\ track_types' =
                     [t \in DOMAIN track_types \cup {in.track_type} |->
                        IF t = in.track_type
                        THEN IF t \in DOMAIN track_types
                             THEN Append(track_types[t], section)
                             ELSE <<section>>
                        ELSE track_types[t]]
                /\ last' = Call("add_track_type_section", "none")
    /\ UNCHANGED <<segments, segment_coords, all_coords, reference_points,
                   trace, calls>>

\* calculate_track_params(ref_point1_name, ref_point2_name)
CalculateTrackParams(ref_point1_name, ref_point2_name) ==
    /\ last' =
         IF \/ ref_point1_name \notin DOMAIN reference_points
            \/ ref_point2_name \notin DOMAIN reference_points
         THEN Call("calculate_track_params", "ValueError")
         ELSE [Call("calculate_track_params", "none") EXCEPT !.ret =
                 Some(CalculateTrackParameters(
                        reference_points[ref_point1_name].coords,
                        reference_points[ref_point1_name].station,
                        reference_points[ref_point2_name].coords,
                        reference_points[ref_point2_name].station))]
    /\ UNCHANGED <<segments, segment_coords, all_coords, reference_points,
                   track_type_sections, track_types, trace, calls>>

\* what a call of get_coordinates_for_station_range leaves in last: the error,
\* or the list returned together with the station values and the indices used
RangeCall(res, start_station, end_station) ==
    IF ~res.ok THEN Call("get_coordinates_for_station_range", res.err)
    ELSE IF res.v.err # "none"
    THEN Call("get_coordinates_for_station_range", res.v.err)
    ELSE [Call("get_coordinates_for_station_range", "none") EXCEPT !.ret =
            Some([start_station_value |-> StationArg(start_station).v,
                  end_station_value |-> StationArg(end_station).v,
                  coords |-> res.v.coords,
                  idx |-> res.v.idx])]

\* station_to_gis(reference_point, reference_station, target_station,
\*                track_params, alignment=self)
CallStationToGis(reference_station, target_station, track_params) ==
    /\ last' = [Call("station_to_gis", "none") EXCEPT
                  !.args = <<reference_station, target_station>>,
                  !.ret = Some(StationToGisAlignment(RefCoords, reference_station,
                                   target_station, track_params, segments,
                                   segment_coords, all_coords))]
    /\ UNCHANGED <<segments, segment_coords, all_coords, reference_points,
                   track_type_sections, track_types, trace, calls>>

\* a query that keeps the list it returns as all_coords
GetCoordinatesForStationRangeKeeping(start_station, end_station) ==
    /\ last' = RangeCall(CoordinatesForStationRange(segments, segment_coords,
                             all_coords, start_station, end_station),
                         start_station, end_station)
    /\ all_coords' = IF last'.ret = None THEN all_coords
                     ELSE last'.ret[1].coords
    /\ UNCHANGED <<segments, segment_coords, reference_points,
                   track_type_sections, track_types, trace, calls>>

\* get_coordinates_for_station_range(start_station, end_station)
GetCoordinatesForStationRange(start_station, end_station) ==
    /\ last' = RangeCall(CoordinatesForStationRange(segments, segment_coords,
                             all_coords, start_station, end_station),
                         start_station, end_station)
    /\ UNCHANGED <<segments, segment_coords, all_coords, reference_points,
                   track_type_sections, track_types, trace, calls>>

\* a missing start point replaced by the origin
UnnamedSeedAtOrigin(segs) ==
    IF segs[1].start_point = None THEN Ok([point |-> <<0, 0>>, bearing |-> 0])
    ELSE Ok([point |-> segs[1].start_point[1], bearing |-> 0])

\* the start without a reference point name: the first segment's start point
\* and bearing 0
UnnamedSeed(segs) ==
    IF segs[1].start_point = None THEN Raise("ValueError")
    ELSE Ok([point |-> segs[1].start_point[1], bearing |-> 0])

\* the start from a reference point: station_to_gis of the start station (the
\* first segment's start_station_value when none is given) and the bearing of
\* the track parameters
NamedSeed(segs, refs, name, track_params, start_station) ==
    IF name \notin DOMAIN refs THEN Raise("ValueError")
    ELSE IF track_params = None THEN Raise("ValueError")
    ELSE IF (start_station = None \/ start_station = Some(0))
            /\ segs[1].start_station_value = None
    THEN Raise("AttributeError")
    ELSE LET station == IF start_station = None \/ start_station = Some(0)
                        THEN segs[1].start_station_value[1]
                        ELSE start_station[1]
         IN  Ok([point |-> StationToGis(refs[name].coords, refs[name].station,
                                        station, track_params[1]),
                 bearing |-> track_params[1].bearing_deg])

\* the check for an empty alignment left out: a start station given with a
\* reference point then seeds the empty loop, anything else indexes segments[0]
SeedWithoutEmptyCheck(segs, refs, start_ref_point_name, track_params, start_station) ==
    IF segs = << >>
    THEN IF /\ start_ref_point_name # None
            /\ start_ref_point_name[1] \in DOMAIN refs
            /\ track_params # None
            /\ start_station # None /\ start_station # Some(0)
         THEN Ok([point |-> refs[start_ref_point_name[1]].coords,
                  bearing |-> track_params[1].bearing_deg])
         ELSE Raise("IndexError")
    ELSE IF start_ref_point_name # None
    THEN NamedSeed(segs, refs, start_ref_point_name[1], track_params, start_station)
    ELSE UnnamedSeed(segs)

\* the checks and the seed of add_to_map, before any segment is processed
Seed(segs, refs, start_ref_point_name, track_params, start_station) ==
    IF segs = << >> THEN Raise("ValueError")
    ELSE IF start_ref_point_name # None
    THEN NamedSeed(segs, refs, start_ref_point_name[1], track_params, start_station)
    ELSE UnnamedSeed(segs)

\* the end of add_to_map once the loop is over: the polyline of the whole
\* alignment when technical information is hidden, then the track type sections
Finish(call, hide_technical_info, r) ==
    LET drawn == IF r.err # "none" THEN r.err
                 ELSE IF hide_technical_info THEN PolyLineAddTo(r.ac, FALSE)
                 ELSE "none"
        rendered == IF drawn # "none" THEN drawn
                    ELSE RenderTrackTypeSectionsError(track_type_sections,
                                                      r.segs, r.ac)
    IN  /\ segments' = r.segs
        /\ segment_coords' = r.sc
        /\ all_coords' = r.ac
        /\ trace' = r.trace
        /\ last' = [call EXCEPT !.err = rendered]
        /\ calls' = calls + 1

\* add_to_map from its seed on: nothing is touched when the seed raised, and
\* the lists are reset only when technical information is hidden
Realize(call, hide_technical_info, seed) ==
    IF ~seed.ok
    THEN /\ last' = [call EXCEPT !.err = seed.err]
         /\ trace' = << >>
         /\ UNCHANGED <<segments, segment_coords, all_coords, calls>>
    ELSE Finish([call EXCEPT !.hide = hide_technical_info, !.reached = TRUE],
                hide_technical_info,
                Walk(1, hide_technical_info,
                     [segs |-> segments,
                      sc |-> IF hide_technical_info THEN << >> ELSE segment_coords,
                      ac |-> IF hide_technical_info THEN << >> ELSE all_coords,
                      point |-> seed.v.point,
                      bearing |-> seed.v.bearing,
                      trace |-> << >>,
                      err |-> "none"]))

\* add_to_map(m, start_ref_point_name, track_params, start_station,
\*            hide_technical_info) on a folium map m
AddToMap(start_ref_point_name, track_params, start_station, hide_technical_info) ==
    /\ calls < MaxCalls
    /\ Realize([op |-> "add_to_map", err |-> "none",
                named |-> start_ref_point_name # None,
                params |-> track_params # None,
                hide |-> FALSE, reached |-> FALSE, ret |-> None,
                args |-> << >>],
               hide_technical_info,
               Seed(segments, reference_points, start_ref_point_name,
                    track_params, start_station))
    /\ UNCHANGED <<reference_points, track_type_sections, track_types>>

Dc0 == <<"0">>

\* add_curve arguments at the edge of the contract: a zero-length entry
\* spiral, exit spiral, arc, all three; a negative, a zero and an infinite
\* radius; neither a degree of curvature nor a radius
EdgeCurveInputs ==
    {CurveInput(Sta1000, Sta1050, Sta1100, Sta1150, None, None, "right"),
     CurveInput(Sta1000, Sta1000, Sta1050, Sta1100, None, Some(57300), "right"),
     CurveInput(Sta1000, Sta1050, Sta1100, Sta1100, None, Some(57300), "right"),
     CurveInput(Sta1000, Sta1050, Sta1050, Sta1100, None, Some(57300), "left"),
     CurveInput(Sta1000, Sta1000, Sta1000, Sta1000, None, Some(57300), "right"),
     CurveInput(Sta1000, Sta1050, Sta1100, Sta1150, None, Some(-57300), "right"),
     CurveInput(Sta1000, Sta1050, Sta1100, Sta1150, None, Some(0), "right"),
     CurveInput(Sta1000, Sta1050, Sta1100, Sta1150, Some(Dc0), None, "right")}

NameArgs == {None} \cup {Some(x) : x \in RefNames}

ParamArgs == {None} \cup {Some(x) : x \in TrackParamsInputs}

Next ==
    \/ \E n \in RefNames : AddReferencePoint(n, RefCoords, RefStation)
    \/ \E t \in TangentInputs : AddTangent(t[1], t[2])
    \/ \E c \in CurveInputs : AddCurve(c)
    \/ \E i \in 1..MaxSegments, b \in ManualBearings : SetManualBearing(i, b)
    \/ \E n \in NameArgs, p \in ParamArgs, s \in StartStationInputs,
          h \in BOOLEAN : AddToMap(n, p, s, h)

Spec == Init /\ [][Next]_vars

\* the same with track type sections
NextAll ==
    \/ \E n \in RefNames : AddReferencePoint(n, RefCoords, RefStation)
    \/ \E t \in TangentInputs : AddTangent(t[1], t[2])
    \/ \E c \in CurveInputs : AddCurve(c)
    \/ \E i \in 1..MaxSegments, b \in ManualBearings : SetManualBearing(i, b)
    \/ \E s \in SectionInputs : AddTrackTypeSection(s)
    \/ \E n \in NameArgs, p \in ParamArgs, s \in StartStationInputs,
          h \in BOOLEAN : AddToMap(n, p, s, h)

SpecAll == Init /\ [][NextAll]_vars

\* the alignment built from curves at the edge of the contract
NextEdge ==
    \/ \E n \in RefNames : AddReferencePoint(n, RefCoords, RefStation)
    \/ \E t \in TangentInputs : AddTangent(t[1], t[2])
    \/ \E c \in EdgeCurveInputs : AddCurve(c)
    \/ \E n \in NameArgs, p \in ParamArgs, s \in StartStationInputs,
          h \in BOOLEAN : AddToMap(n, p, s, h)

SpecEdge == Init /\ [][NextEdge]_vars

Sta1200 == <<"1", "2", "+", "0", "0">>

Sta1250 == <<"1", "2", "+", "5", "0">>

\* segments whose stations follow on: a 100 ft tangent from 10+00, a
\* zero-length tangent and a 150 ft curve from 11+00
RangeTangentInputs == {<<Sta1000, Sta1100>>, <<Sta1100, Sta1100>>}

RangeCurveInputs ==
    {CurveInput(Sta1100, Sta1150, Sta1200, Sta1250, None, Some(57300), "right")}

\* get_coordinates_for_station_range arguments: a range before and a range
\* after the alignment, the spans 10+00..11+00, 10+00..12+50 and 11+00..12+50,
\* a reversed range inside the first tangent, a range from 9/10 of the tangent
\* into the curve, a station given as a string, a malformed string
RangeQueries ==
    {<<NumArg(90000), NumArg(95000)>>,
     <<NumArg(130000), NumArg(140000)>>,
     <<NumArg(100000), NumArg(110000)>>,
     <<NumArg(100000), NumArg(125000)>>,
     <<NumArg(110000), NumArg(125000)>>,
     <<NumArg(107500), NumArg(102500)>>,
     <<NumArg(109000), NumArg(112500)>>,
     <<TextArg(Sta1050), NumArg(110000)>>,
     <<TextArg(StaNoPlus), NumArg(110000)>>}

\* an alignment that is built, annotated, realized and queried
NextRange ==
    \/ \E n \in RefNames : AddReferencePoint(n, RefCoords, RefStation)
    \/ \E t \in RangeTangentInputs : AddTangent(t[1], t[2])
    \/ \E c \in RangeCurveInputs : AddCurve(c)
    \/ \E s \in SectionInputs : AddTrackTypeSection(s)
    \/ \E n \in NameArgs, p \in ParamArgs, s \in StartStationInputs,
          h \in BOOLEAN : AddToMap(n, p, s, h)
    \/ \E q \in RangeQueries : GetCoordinatesForStationRange(q[1], q[2])

SpecRange == Init /\ [][NextRange]_vars

\* segments with a gap in the stationing: a tangent 10+00..11+00, and a
\* tangent and a curve that start 50 ft after it ends; queried over the whole
\* alignment, over the second segment's declared span, over the gap and
\* inside the first tangent
NextGap ==
    \/ \E n \in RefNames : AddReferencePoint(n, RefCoords, RefStation)
    \/ \E t \in {<<Sta1000, Sta1100>>, <<Sta1150, Sta1250>>} :
          AddTangent(t[1], t[2])
    \/ AddCurve(CurveInput(Sta1150, Sta1200, Sta1200, Sta1250, None,
                           Some(57300), "left"))
    \/ \E n \in NameArgs, p \in ParamArgs, s \in StartStationInputs :
          AddToMap(n, p, s, FALSE)
    \/ \E q \in {<<100000, 125000>>, <<115000, 125000>>, <<110000, 115000>>,
                  <<100000, 105000>>} :
          GetCoordinatesForStationRange(NumArg(q[1]), NumArg(q[2]))

SpecGap == Init /\ [][NextGap]_vars

\* an alignment that is built, realized and asked for the point of a station:
\* the reference station at the first segment's start station 10+00, before
\* it and far after it; targets a quarter and three quarters into the tangent
\* and in the curve
NextPortal ==
    \/ \E n \in RefNames : AddReferencePoint(n, RefCoords, RefStation)
    \/ AddTangent(Sta1000, Sta1100)
    \/ \E c \in RangeCurveInputs : AddCurve(c)
    \/ \E n \in NameArgs, p \in ParamArgs, s \in StartStationInputs :
          AddToMap(n, p, s, FALSE)
    \/ \E r \in {100000, 95000, 200000}, t \in {102500, 107500, 112500},
          p \in TrackParamsInputs : CallStationToGis(r, t, p)

SpecPortal == Init /\ [][NextPortal]_vars

\* an alignment defined with stations in and out of order, then realized:
\* tangents in and against the order of the stations; curves with the four
\* stations in order, with the arc against the order (SC after CS), and with
\* all four reversed
NextOrder ==
    \/ \E n \in RefNames : AddReferencePoint(n, RefCoords, RefStation)
    \/ \E t \in {<<Sta1000, Sta1100>>, <<Sta1100, Sta1000>>} :
          AddTangent(t[1], t[2])
    \/ \E c \in {<<Sta1000, Sta1050, Sta1100, Sta1150>>,
                  <<Sta1000, Sta1100, Sta1050, Sta1150>>,
                  <<Sta1150, Sta1100, Sta1050, Sta1000>>} :
          AddCurve(CurveInput(c[1], c[2], c[3], c[4], None, Some(57300),
                              "right"))
    \/ \E n \in NameArgs, p \in ParamArgs, s \in StartStationInputs :
          AddToMap(n, p, s, FALSE)

SpecOrder == Init /\ [][NextOrder]_vars

\* an alignment of curves of every spelling of the direction, then realized:
\* 100 ft spirals around a 100 ft arc of radius 573 ft, from 10+00 to 13+00,
\* with the direction written in lower case and capitalised
NextTurn ==
    \/ \E n \in RefNames : AddReferencePoint(n, RefCoords, RefStation)
    \/ AddTangent(Sta1000, Sta1100)
    \/ \E d \in {"left", "right", "Left", "Right"} :
          AddCurve(CurveInput(Sta1000, Sta1100, Sta1200,
                              <<"1", "3", "+", "0", "0">>, None, Some(57300), d))
    \/ \E n \in NameArgs, p \in ParamArgs, s \in StartStationInputs :
          AddToMap(n, p, s, FALSE)

SpecTurn == Init /\ [][NextTurn]_vars

\* an alignment defined by well formed and malformed calls, then realized:
\* tangents well formed and with either station malformed; curves well
\* formed by radius and by degree of curvature, with the first and with the
\* last station malformed, and with a malformed angle
NextDefine ==
    \/ \E n \in RefNames : AddReferencePoint(n, RefCoords, RefStation)
    \/ \E t \in {<<Sta1000, Sta1100>>, <<StaNoPlus, Sta1100>>,
                  <<Sta1000, StaNoPlus>>} : AddTangent(t[1], t[2])
    \/ \E c \in {<<Sta1100, Sta1250, None, Some(57300)>>,
                  <<Sta1100, Sta1250, Some(Dc10), None>>,
                  <<StaNoPlus, Sta1250, None, Some(57300)>>,
                  <<Sta1100, StaNoPlus, None, Some(57300)>>,
                  <<Sta1100, Sta1250, Some(<<"x">>), None>>} :
          AddCurve(CurveInput(c[1], Sta1150, Sta1200, c[2], c[3], c[4],
                              "right"))
    \/ \E n \in NameArgs, p \in ParamArgs, s \in StartStationInputs :
          AddToMap(n, p, s, FALSE)

SpecDefine == Init /\ [][NextDefine]_vars

MaxStationLen == 5

StationAlphabet == {"1", "5", "+", ".", "-"}

\* every text of at most MaxStationLen characters of the alphabet
StationStrings == UNION {[1..n -> StationAlphabet] : n \in 0..MaxStationLen}

\* a text about to be handed to parse_station
InitStation ==
    /\ segments = << >>
    /\ segment_coords = << >>
    /\ all_coords = << >>
    /\ reference_points = << >>
    /\ track_type_sections = << >>
    /\ track_types = [t \in TrackTypeNames |-> << >>]
    /\ \E s \in StationStrings :
          last = [Call("input", "none") EXCEPT !.args = <<s>>]
    /\ trace = << >>
    /\ calls = 0

\* parse_station(station_str) on the text at hand
CallParseStation ==
    /\ last.op = "input"
    /\ last' = IF ParseStation(last.args[1]).ok
               THEN [Call("parse_station", "none") EXCEPT
                       !.args = last.args,
                       !.ret = Some(ParseStation(last.args[1]).v)]
               ELSE [Call("parse_station", ParseStation(last.args[1]).err)
                       EXCEPT !.args = last.args]
    /\ UNCHANGED <<segments, segment_coords, all_coords, reference_points,
                   track_type_sections, track_types, trace, calls>>

\* format_station(station_value) on the value parse_station returned
CallFormatStation ==
    /\ last.op = "parse_station" /\ last.ret # None
    /\ last' = [Call("format_station", "none") EXCEPT
                  !.args = last.ret,
                  !.ret = Some(FormatStation(last.ret[1]))]
    /\ UNCHANGED <<segments, segment_coords, all_coords, reference_points,
                   track_type_sections, track_types, trace, calls>>

\* the station functions applied to a text and to the value it gives
NextStation ==
    \/ CallParseStation
    \/ CallFormatStation

SpecStation == InitStation /\ [][NextStation]_vars

MaxAngleLen == 5

AngleAlphabet == {"1", ".", " ", "'", "\"", "x"}

\* every text of at most MaxAngleLen characters of the alphabet that holds at
\* most four digits
AngleStrings ==
    {s \in UNION {[1..n -> AngleAlphabet] : n \in 0..MaxAngleLen} :
        Cardinality({i \in DOMAIN s : s[i] \in Digits}) <= 4}

\* a text about to be handed to parse_angle
InitAngle ==
    /\ segments = << >>
    /\ segment_coords = << >>
    /\ all_coords = << >>
    /\ reference_points = << >>
    /\ track_type_sections = << >>
    /\ track_types = [t \in TrackTypeNames |-> << >>]
    /\ \E s \in AngleStrings :
          last = [Call("input", "none") EXCEPT !.args = <<s>>]
    /\ trace = << >>
    /\ calls = 0

\* parse_angle(angle_str) on the text at hand
CallParseAngle ==
    /\ last.op = "input"
    /\ last' = IF ParseAngle(last.args[1]).ok
               THEN [Call("parse_angle", "none") EXCEPT
                       !.args = last.args,
                       !.ret = Some(ParseAngle(last.args[1]).v)]
               ELSE [Call("parse_angle", ParseAngle(last.args[1]).err)
                       EXCEPT !.args = last.args]
    /\ UNCHANGED <<segments, segment_coords, all_coords, reference_points,
                   track_type_sections, track_types, trace, calls>>

SpecAngle == InitAngle /\ [][CallParseAngle]_vars

\* create_railway_spiral arguments: five entry bearings, spirals of 50, 100
\* and 150 ft into radii of 573 and 286.5 ft, to the left and to the right
SpiralInputs ==
    [start_point : {RefCoords},
     bearing_deg : {0, 4500, 9000, 14200, 27000},
     spiral_length_ft : {5000, 10000, 15000},
     radius_ft : {Finite(57300), Finite(28650)},
     direction : {"left", "right"}]

\* arguments about to be handed to create_railway_spiral
InitSpiral ==
    /\ segments = << >>
    /\ segment_coords = << >>
    /\ all_coords = << >>
    /\ reference_points = << >>
    /\ track_type_sections = << >>
    /\ track_types = [t \in TrackTypeNames |-> << >>]
    /\ \E in \in SpiralInputs :
          last = [Call("input", "none") EXCEPT !.args = <<in>>]
    /\ trace = << >>
    /\ calls = 0

\* create_railway_spiral(start_point, bearing_deg, spiral_length_ft,
\*                       radius_ft=..., direction=..., steps=...)
CallCreateRailwaySpiral ==
    /\ last.op = "input"
    /\ last' = [Call("create_railway_spiral", "none") EXCEPT
                  !.args = last.args,
                  !.ret = Some(CreateRailwaySpiral(last.args[1].start_point,
                                 last.args[1].bearing_deg,
                                 last.args[1].spiral_length_ft,
                                 last.args[1].radius_ft,
                                 last.args[1].direction, CurveSteps))]
    /\ UNCHANGED <<segments, segment_coords, all_coords, reference_points,
                   track_type_sections, track_types, trace, calls>>

SpecSpiral == InitSpiral /\ [][CallCreateRailwaySpiral]_vars

\* reference points for the calibration: two names, two places 3000
\* micro-degrees apart, three stations 500 ft apart
CalibrationNames == {"A", "B"}

CalibrationCoords == {RefCoords, <<32997600, -116998200>>}

CalibrationStations == {RefStation, 150000, 200000}

\* the calibration of an alignment from its reference points
NextCalibration ==
    \/ \E n \in CalibrationNames, c \in CalibrationCoords,
          s \in CalibrationStations : AddReferencePoint(n, c, s)
    \/ \E n1 \in CalibrationNames, n2 \in CalibrationNames :
          CalculateTrackParams(n1, n2)

SpecCalibration == Init /\ [][NextCalibration]_vars

(***************************************************************************)
(* Properties                                                              *)
(***************************************************************************)
RECURSIVE Flatten(_)
Flatten(lists) ==
    IF lists = << >> THEN << >> ELSE Head(lists) \o Flatten(Tail(lists))

\* C1: in every reachable state, also after a call that raised, all_coords is
\* the concatenation of the lists of segment_coords in list order
C1_AllCoordsIsFlattenedSegmentCoords == all_coords = Flatten(segment_coords)

\* an add_to_map that raised at a later segment left the earlier ones stored
C1_Witness ==
    /\ last.op = "add_to_map" /\ last.reached /\ last.err # "none"
    /\ Len(segment_coords) >= 1
    /\ Len(segment_coords) < Len(segments)

\* C2: after every successful add_to_map, segment_coords has one entry for
\* each segment and entry i is the coordinate list of segment i
C2_SegmentCoordsMatchSegments ==
    (last.op = "add_to_map" /\ last.err = "none")
        => /\ Len(segment_coords) = Len(segments)
           /\ \A i \in 1..Len(segments) : segment_coords[i] = segments[i].coords

\* C3: after a successful add_to_map, every entry of segment_coords after the
\* first starts at the last point of the entry before it
C3_ChainContinuity ==
    (last.op = "add_to_map" /\ last.err = "none")
        => \A i \in 2..Len(segment_coords) :
              segment_coords[i][1] = Last(segment_coords[i - 1])

\* C4: a tangent without a manual bearing hands on the bearing it received,
\* whatever its length and in both modes of add_to_map
C4_TangentBearingInvariance ==
    \A i \in 1..Len(trace) :
        (trace[i].type = "tangent" /\ trace[i].manual_bearing = None)
            => trace[i].out_bearing = trace[i].in_bearing

\* a zero-length tangent realized with technical information hidden, entered
\* at the bearing of the track parameters
C4_Witness ==
    /\ last.op = "add_to_map" /\ last.hide
    /\ \E i \in 1..Len(trace) :
          /\ trace[i].type = "tangent" /\ trace[i].manual_bearing = None
          /\ segments[i].length_ft = 0
          /\ trace[i].in_bearing # 0

\* C5: a tangent with a manual bearing (0 included) is generated with the
\* manual bearing and hands the manual bearing on; a tangent without one is
\* generated with the bearing it received
C5_ManualBearingOverride ==
    \A i \in 1..Len(trace) :
        trace[i].type = "tangent"
            => IF trace[i].manual_bearing # None
               THEN /\ trace[i].gen_bearing = trace[i].manual_bearing[1]
                    /\ trace[i].out_bearing = trace[i].manual_bearing[1]
                    /\ segment_coords[Len(segment_coords) - Len(trace) + i]
                         = AddRailwayTangentToMap(trace[i].in_point,
                               trace[i].manual_bearing[1], segments[i].length_ft,
                               TangentNumPoints)
               ELSE trace[i].gen_bearing = trace[i].in_bearing

\* a tangent with manual bearing 0 that received another bearing
C5_Witness ==
    \E i \in 1..Len(trace) :
        /\ trace[i].type = "tangent"
        /\ trace[i].manual_bearing = Some(0)
        /\ trace[i].in_bearing # 0
        /\ segments[i].length_ft > 0
\* C6: a curve with positive component lengths and a positive finite radius R,
\* entered at bearing ts, has sc = ts -/+ degrees(entry/(2R)),
\* cs = sc -/+ degrees(arc/R), st = cs -/+ degrees(exit/(2R)), minus for
\* 'right' and plus for 'left'; the bearings fall strictly for 'right' and
\* rise strictly for 'left'; |st - ts| is the degrees of the summed
\* deflection; and st is the bearing handed to the next segment
C6_CurveBearingDeflection ==
    /\ \A i \in 1..Len(segments) :
         LET seg == segments[i]
             R == seg.radius_ft.v
             sign == IF seg.direction = "right" THEN -1 ELSE 1
         IN  (/\ seg.type = "spiral_curve_spiral"
              /\ seg.st_bearing # None
              /\ seg.direction \in {"right", "left"}
              /\ seg.entry_spiral_length > 0
              /\ seg.circular_arc_length > 0
              /\ seg.exit_spiral_length > 0
              /\ ~seg.radius_ft.inf /\ R > 0)
             => LET ts == seg.ts_bearing[1]
                    sc == seg.sc_bearing[1]
                    cs == seg.cs_bearing[1]
                    st == seg.st_bearing[1]
                IN  /\ sc = ts + sign * Degrees(seg.entry_spiral_length, 2 * R)
                    /\ cs = sc + sign * Degrees(seg.circular_arc_length, R)
                    /\ st = cs + sign * Degrees(seg.exit_spiral_length, 2 * R)
                    /\ seg.direction = "right" => (ts > sc /\ sc > cs /\ cs > st)
                    /\ seg.direction = "left" => (ts < sc /\ sc < cs /\ cs < st)
                    /\ Abs(st - ts)
                         = Degrees(seg.entry_spiral_length
                                     + 2 * seg.circular_arc_length
                                     + seg.exit_spiral_length, 2 * R)
    /\ \A i \in 1..Len(trace) :
         trace[i].type = "spiral_curve_spiral"
            => /\ segments[i].ts_bearing = Some(trace[i].in_bearing)
               /\ segments[i].st_bearing = Some(trace[i].out_bearing)

\* a right-hand curve realized after a tangent and followed by a segment that
\* received its st bearing
C6_Witness ==
    \E i \in 2..Len(trace) :
        /\ trace[i - 1].type = "spiral_curve_spiral"
        /\ segments[i - 1].direction = "right"
        /\ segments[i - 1].st_bearing # None
        /\ trace[i].in_bearing = segments[i - 1].st_bearing[1]

\* C7: realizing a curve that has a zero-length entry spiral, arc or exit
\* spiral completes without raising; a zero-length component does not change
\* the bearing, and with all three zero the ST point is the TS point
C7_DegenerateCurveRealizes ==
    (/\ last.op = "add_to_map" /\ last.reached /\ ~last.hide
     /\ \A i \in 1..Len(segments) :
          segments[i].type = "spiral_curve_spiral"
             => /\ ~segments[i].radius_ft.inf /\ segments[i].radius_ft.v > 0
                /\ segments[i].entry_spiral_length >= 0
                /\ segments[i].circular_arc_length >= 0
                /\ segments[i].exit_spiral_length >= 0)
        => /\ last.err = "none"
           /\ \A i \in 1..Len(segments) :
                LET seg == segments[i]
                IN  seg.type = "spiral_curve_spiral"
                       => /\ seg.entry_spiral_length = 0
                               => seg.sc_bearing = seg.ts_bearing
                          /\ seg.circular_arc_length = 0
                               => seg.cs_bearing = seg.sc_bearing
                          /\ seg.exit_spiral_length = 0
                               => seg.st_bearing = seg.cs_bearing
                          /\ (/\ seg.entry_spiral_length = 0
                              /\ seg.circular_arc_length = 0
                              /\ seg.exit_spiral_length = 0)
                               => (seg.st_point = seg.ts_point
                                   /\ seg.st_bearing = seg.ts_bearing)

C9_EmptyAlignmentRaises ==
    [][(last'.op = "add_to_map" /\ segments = << >>)
          => (last'.err # "none" /\ UNCHANGED <<segment_coords, all_coords>>)]_vars

\* add_to_map was called with a reference point, track parameters and a start
\* station on an alignment without segments, and raised
C9_Witness ==
    /\ segments = << >>
    /\ last.op = "add_to_map" /\ last.named /\ last.params
    /\ last.err = "ValueError"
    /\ reference_points # << >>

\* C10: every curve in segments has a finite, strictly positive radius
C10_CurveRadiusFinitePositive ==
    \A i \in 1..Len(segments) :
        segments[i].type = "spiral_curve_spiral"
            => (~segments[i].radius_ft.inf /\ segments[i].radius_ft.v > 0)

\* C11: add_curve with neither degree_of_curve nor radius_ft raises ValueError
\* in the call itself and leaves the segments list (and the coordinate lists)
\* as it was; no curve with a substituted radius is appended
C11_AddCurveWithoutRadiusRaises ==
    [][\A c \in EdgeCurveInputs :
          (c.degree_of_curve = None /\ c.radius_ft = None /\ AddCurve(c))
             => /\ last'.op = "add_curve" /\ last'.err = "ValueError"
                /\ UNCHANGED <<segments, segment_coords, all_coords>>]_vars

\* add_curve raised ValueError on an alignment that already holds a segment
C11_Witness ==
    /\ last.op = "add_curve" /\ last.err = "ValueError"
    /\ Len(segments) >= 1

\* C12: calculate_track_params never returns track parameters whose scale is
\* infinite or undefined; with two reference points at the same station it
\* raises instead
C12_SameStationRaises ==
    (last.op = "calculate_track_params" /\ last.err = "none")
        => last.ret[1].scale \notin {PosInf, NaN}

\* the station at which the running station of the extraction ends
RECURSIVE SpanEnd(_, _, _)
SpanEnd(segs, i, current_station) ==
    IF i > Len(segs) THEN current_station
    ELSE SpanEnd(segs, i + 1, current_station + SegmentSpan(segs[i]))

\* C13: a station-range query returns a non-empty list only when its interval
\* [start, end] overlaps the station span of the alignment: start <= end, and
\* the interval neither lies before the first station nor after the last one
C13_NonEmptyOnlyOnOverlap ==
    (/\ last.op = "get_coordinates_for_station_range"
     /\ last.err = "none"
     /\ last.ret[1].coords # << >>)
        => /\ last.ret[1].start_station_value <= last.ret[1].end_station_value
           /\ last.ret[1].end_station_value >= segments[1].start_station_value[1]
           /\ last.ret[1].start_station_value
                <= SpanEnd(segments, 1, segments[1].start_station_value[1])

\* the station a segment is declared to start at and to end at
DeclaredStart(segment) ==
    IF segment.type = "tangent" THEN segment.start_station_value[1]
    ELSE segment.ts_station_value[1]

DeclaredEnd(segment) ==
    IF segment.type = "tangent" THEN segment.end_station_value[1]
    ELSE segment.st_station_value[1]

\* every segment of the alignment has been given its coordinates
Realized ==
    /\ segments # << >>
    /\ all_coords # << >>
    /\ \A i \in 1..Len(segments) : segments[i].coords # << >>

\* C14: on a realized alignment, the query from the first segment's start
\* station to the last segment's end station returns all_coords
C14_FullSpanReturnsAllCoords ==
    [][\A q \in RangeQueries :
          (/\ Realized
           /\ ~q[1].is_str /\ ~q[2].is_str
           /\ q[1].num = DeclaredStart(segments[1])
           /\ q[2].num = DeclaredEnd(segments[Len(segments)])
           /\ GetCoordinatesForStationRange(q[1], q[2]))
             => (last'.err = "none" /\ last'.ret[1].coords = all_coords)]_vars

\* round(a / b) for a >= 0 and b > 0, halves rounded to the even neighbour
RoundDiv(a, b) ==
    IF 2 * (a % b) > b THEN (a \div b) + 1
    ELSE IF 2 * (a % b) = b THEN (a \div b) + ((a \div b) % 2)
    ELSE a \div b

C16_SeedFromFirstSegment ==
    [][\A n \in RefNames, p \in TrackParamsInputs, h \in BOOLEAN :
          (/\ segments # << >>
           /\ n \in DOMAIN reference_points
           /\ AddToMap(Some(n), Some(p), None, h))
             => /\ last'.reached
                /\ Len(trace') >= 1
                     => /\ trace'[1].in_point
                             = StationToGis(reference_points[n].coords,
                                            reference_points[n].station,
                                            DeclaredStart(segments[1]), p)
                        /\ trace'[1].in_bearing = p.bearing_deg]_vars

C18_AnnotationLeavesGeometry ==
    [][last'.op \in {"add_track_type_section",
                     "get_coordinates_for_station_range"}
          => UNCHANGED <<segments, segment_coords, all_coords,
                         reference_points>>]_vars

\* on a realized alignment that has a track type section, a query returned a
\* part of the coordinates
C18_Witness ==
    /\ last.op = "get_coordinates_for_station_range" /\ last.err = "none"
    /\ last.ret[1].coords # << >>
    /\ last.ret[1].coords # all_coords
    /\ track_type_sections # << >>

\* the text before the first '+' of s, and the text after it
BeforePlus(s) == SubSeq(s, 1, (CHOOSE i \in Positions(s, "+") : TRUE) - 1)

AfterPlus(s) == SubSeq(s, (CHOOSE i \in Positions(s, "+") : TRUE) + 1, Len(s))

\* C19: parse_station raises for every text that does not hold exactly one
\* '+', and for a text with one '+' between two numbers it returns 100 times
\* the number before the '+' plus the number after it
C19_ParseStation ==
    last.op = "parse_station"
        => IF Len(SelectSeq(last.args[1], LAMBDA c : c = "+")) # 1
           THEN last.err # "none"
           ELSE (IsFloat(BeforePlus(last.args[1]))
                   /\ IsFloat(AfterPlus(last.args[1])))
                   => /\ last.err = "none"
                      /\ last.ret
                           = Some(100 * FloatHundredths(BeforePlus(last.args[1]))
                                    + FloatHundredths(AfterPlus(last.args[1])))

\* parse_station returned a station beyond 1+00 that has hundredths
C19_Witness ==
    /\ last.op = "parse_station" /\ last.err = "none"
    /\ last.ret[1] % 100 # 0
    /\ last.ret[1] > 10000

\* C20: the text format_station gives for a station that parse_station
\* returned is parsed by parse_station to within 0.01 ft of that station
C20_StationRoundTrip ==
    last.op = "format_station"
        => /\ ParseStation(last.ret[1]).ok
           /\ Abs(ParseStation(last.ret[1]).v - last.args[1]) <= 1

\* a station of more than 100 ft with hundredths was formatted
C20_Witness ==
    /\ last.op = "format_station"
    /\ last.args[1] > 10000
    /\ last.args[1] % 100 # 0

\* f"{x:05.2f}" for x given in hundredths, 0 <= x < 10000
Padded5(x) ==
    <<DigitChar(x \div 1000), DigitChar((x \div 100) % 10), ".",
      DigitChar((x \div 10) % 10), DigitChar(x % 10)>>

\* C21: the text format_station gives for a station v is floor(v/100), then
\* '+', then v - 100*floor(v/100) with two integer digits and two decimals
C21_CanonicalStationText ==
    last.op = "format_station"
        => last.ret[1]
             = IntText(FloorDiv(last.args[1], 10000)) \o <<"+">>
                 \o Padded5(last.args[1] - FloorDiv(last.args[1], 10000) * 10000)

\* the tokens of a DMS text, read character by character: acc holds the
\* tokens closed so far and cur the token being read
RECURSIVE DmsTokens(_, _, _)
DmsTokens(s, acc, cur) ==
    IF s = << >> THEN (IF cur = << >> THEN acc ELSE Append(acc, cur))
    ELSE IF Head(s) \in {" ", "'", "\""}
    THEN DmsTokens(Tail(s), IF cur = << >> THEN acc ELSE Append(acc, cur), << >>)
    ELSE DmsTokens(Tail(s), acc, Append(cur, Head(s)))

\* the number a token at position k stands for, 0 when there is no such token
TokenValue(tokens, k) ==
    IF k <= Len(tokens) THEN FloatHundredths(tokens[k]) ELSE 0

\* C22: parse_angle raises when one of the first three tokens of the text is
\* not a number; otherwise, for a text with at least one token, it returns
\* deg + min/60 + sec/3600 with a missing minute or second counted as 0
C22_ParseAngle ==
    last.op = "parse_angle"
        => IF \E k \in 1..Len(DmsTokens(last.args[1], << >>, << >>)) :
                 k <= 3 /\ ~IsFloat(DmsTokens(last.args[1], << >>, << >>)[k])
           THEN last.err # "none"
           ELSE DmsTokens(last.args[1], << >>, << >>) # << >>
                   => /\ last.err = "none"
                      /\ last.ret[1]
                           = 3600 * TokenValue(DmsTokens(last.args[1], << >>, << >>), 1)
                             + 60 * TokenValue(DmsTokens(last.args[1], << >>, << >>), 2)
                             + TokenValue(DmsTokens(last.args[1], << >>, << >>), 3)

\* parse_angle returned an angle with degrees, minutes and seconds
C22_Witness ==
    /\ last.op = "parse_angle" /\ last.err = "none"
    /\ Len(DmsTokens(last.args[1], << >>, << >>)) = 3
    /\ last.ret[1] = 3600 * 100 + 60 * 100 + 100

\* the point the Fresnel offsets give at arc distance s of the spiral in
\* (micro-degrees); y is counted to the side of the direction
FresnelPoint(in, s) ==
    LocalToPoint(in.start_point, in.bearing_deg,
        FresnelX(s, SpiralAngle(s, in.spiral_length_ft, in.radius_ft)),
        (IF in.direction = "left" THEN 1 ELSE -1)
          * FresnelY(s, SpiralAngle(s, in.spiral_length_ft, in.radius_ft)))

\* C23: every sampled point of a spiral is, to within 3 micro-degrees (about
\* one foot), the start point plus the Fresnel offsets x(s), y(s) at its arc
\* distance s turned by the entry bearing
C23_SpiralPointsFromFresnelSeries ==
    last.op = "create_railway_spiral"
        => \A i \in 1..CurveSteps :
              LET s == FloorDiv(i * last.args[1].spiral_length_ft, CurveSteps)
              IN  /\ Abs(last.ret[1][i + 1][1] - FresnelPoint(last.args[1], s)[1]) <= 3
                  /\ Abs(last.ret[1][i + 1][2] - FresnelPoint(last.args[1], s)[2]) <= 3

\* C24: a call of add_to_map that raises leaves segment_coords and all_coords
\* as they were before the call, in either mode
C24_FailedRealizationLeavesCoords ==
    [][(last'.op = "add_to_map" /\ last'.err # "none")
          => (segment_coords' = segment_coords /\ all_coords' = all_coords)]_vars

\* the stations of the alignment increase along the direction of travel
StationsIncrease(segs) ==
    /\ \A i \in 1..Len(segs) : DeclaredStart(segs[i]) <= DeclaredEnd(segs[i])
    /\ \A i \in 1..(Len(segs) - 1) :
          DeclaredEnd(segs[i]) <= DeclaredStart(segs[i + 1])

\* C25: when the stations increase along the alignment, the span a station
\* range query attributes to a segment it takes coordinates from is the span
\* the segment was declared with, gaps between segments included
C25_SpanIsDeclaredSpan ==
    (/\ last.op = "get_coordinates_for_station_range"
     /\ last.ret # None
     /\ StationsIncrease(segments))
        => \A k \in 1..Len(last.ret[1].idx) :
              /\ last.ret[1].idx[k].segment_start
                    = DeclaredStart(segments[last.ret[1].idx[k].i])
              /\ last.ret[1].idx[k].segment_end
                    = DeclaredEnd(segments[last.ret[1].idx[k].i])

\* the station at which the extraction lets segment i start
RECURSIVE AttributedStart(_, _)
AttributedStart(segs, i) ==
    IF i = 1 THEN segs[1].start_station_value[1]
    ELSE AttributedStart(segs, i - 1) + SegmentSpan(segs[i - 1])

\* segment i has coordinates and the extraction attributes the station to it
AttributedTo(i, station) ==
    /\ i <= Len(segment_coords)
    /\ AttributedStart(segments, i) <= station
    /\ station <= AttributedStart(segments, i) + SegmentSpan(segments[i])

\* C26: on a realized alignment, station_to_gis with the alignment returns,
\* for a target station inside the span of a segment, a sampled point of that
\* segment's coordinates, whatever reference_station it is called with
C26_StationToGisFollowsSegments ==
    (/\ last.op = "station_to_gis"
     /\ Realized
     /\ segments[1].type = "tangent"
     /\ \E i \in 1..Len(segments) : AttributedTo(i, last.args[2]))
        => \E i \in 1..Len(segments) :
              /\ AttributedTo(i, last.args[2])
              /\ \E k \in 1..Len(segment_coords[i]) :
                    last.ret[1] = segment_coords[i][k]

\* C27: no segment with a negative length is ever created: add_tangent with
\* the end station before the start station, and add_curve with stations not
\* in the order TS <= SC <= CS <= ST, raise instead
C27_NoNegativeLength ==
    \A i \in 1..Len(segments) :
        IF segments[i].type = "tangent" THEN segments[i].length_ft >= 0
        ELSE /\ segments[i].entry_spiral_length >= 0
             /\ segments[i].circular_arc_length >= 0
             /\ segments[i].exit_spiral_length >= 0

Sgn(x) == IF x > 0 THEN 1 ELSE IF x < 0 THEN -1 ELSE 0

\* the side of the line through p with bearing bearing_deg on which q lies:
\* 1 on the side of rising bearings, -1 on the side of falling bearings
Side(p, bearing_deg, q) ==
    Sgn(CosFP(bearing_deg) * (q[2] - p[2]) * (LonFtPerDeg(p[1]) \div 1000)
          - SinFP(bearing_deg) * (q[1] - p[1]) * (LatFtPerDeg \div 1000))

\* C28: in every realized curve, whatever the spelling of its direction, the
\* entry spiral, the arc and the exit spiral each end on the side of their
\* entry bearing towards which the bearing at their end is deflected
C28_TurnSenseConsistent ==
    \A i \in 1..Len(segments) :
        (/\ segments[i].type = "spiral_curve_spiral"
         /\ segments[i].st_bearing # None
         /\ segments[i].st_point # None)
            => /\ Side(segments[i].ts_point[1], segments[i].ts_bearing[1],
                       segments[i].sc_point[1])
                    = Sgn(segments[i].sc_bearing[1] - segments[i].ts_bearing[1])
               /\ Side(segments[i].sc_point[1], segments[i].sc_bearing[1],
                       segments[i].cs_point[1])
                    = Sgn(segments[i].cs_bearing[1] - segments[i].sc_bearing[1])
               /\ Side(segments[i].cs_point[1], segments[i].cs_bearing[1],
                       segments[i].st_point[1])
                    = Sgn(segments[i].st_bearing[1] - segments[i].cs_bearing[1])

\* C29: a call of add_tangent or add_curve that raises leaves the segments
\* list as it was, and a call that returns appends exactly one segment at the
\* end of the list, the earlier segments staying in their order
C29_FailedDefinitionChangesNothing ==
    [][last'.op \in {"add_tangent", "add_curve"}
          => IF last'.err # "none" THEN segments' = segments
             ELSE /\ Len(segments') = Len(segments) + 1
                  /\ SubSeq(segments', 1, Len(segments)) = segments
                  /\ segments'[Len(segments')].type
                       = (IF last'.op = "add_tangent" THEN "tangent"
                          ELSE "spiral_curve_spiral")]_vars

\* add_curve has just raised on an alignment that holds a tangent and nothing
\* else
C29_Witness ==
    /\ last.op = "add_curve" /\ last.err # "none"
    /\ Len(segments) = 1 /\ segments[1].type = "tangent"

\* the alignment has segments and none of them was ever realized
Fresh ==
    /\ segments # << >>
    /\ segment_coords = << >> /\ all_coords = << >>
    /\ \A i \in 1..Len(segments) : segments[i].coords = << >>

\* the loop of add_to_map over the segments of the alignment as it is, from a
\* seed point and bearing, in one of the two modes
WalkFrom(hide_technical_info, point, bearing) ==
    Walk(1, hide_technical_info,
         [segs |-> segments, sc |-> << >>, ac |-> << >>, point |-> point,
          bearing |-> bearing, trace |-> << >>, err |-> "none"])

\* the bearing each processed segment hands to the next
HandOff(r) == [i \in 1..Len(r.trace) |-> r.trace[i].out_bearing]

\* C30: on an alignment never realized before, the loop of add_to_map gives,
\* from the same seed point and bearing, the same segment_coords, the same
\* all_coords and the same hand-off bearings with hide_technical_info set and
\* unset
C30_RealizationPathsAgree ==
    Fresh => \A bearing \in {0, 14200} :
                /\ WalkFrom(TRUE, RefCoords, bearing).sc
                     = WalkFrom(FALSE, RefCoords, bearing).sc
                /\ WalkFrom(TRUE, RefCoords, bearing).ac
                     = WalkFrom(FALSE, RefCoords, bearing).ac
                /\ HandOff(WalkFrom(TRUE, RefCoords, bearing))
                     = HandOff(WalkFrom(FALSE, RefCoords, bearing))

====
